---- MODULE Spec2Model ----
(***************************************************************************)
(* A model of pixi-dashed-line (src/lib/index.ts): the DashLine tracer,    *)
(* its vector stride emitter, its texture branch, the asynchronous stroke  *)
(* style setup and the static texture cache.                               *)
(*                                                                         *)
(* Geometry is modelled with exact arithmetic on an integer grid.  LineTo  *)
(* is offered only axis-aligned targets, so that Math.sqrt, Math.cos and   *)
(* Math.sin of the source are exact integers (cos, sin in {-1, 0, 1}).     *)
(* Scales and offsets are integers.  Array indexes are 0-based, as in the  *)
(* source: dash[i] of the source is dash[i + 1] here.                      *)
(***************************************************************************)
EXTENDS Integers, Sequences, FiniteSets, TLC

VARIABLES
    phase,          \* "new" | "ready" | "rejected" (constructor threw) | "hung" (a lineTo never
                    \* returns) | "offgrid" (the tracer was sent off the model's grid)
    dash,           \* this.dash
    dashSize,       \* this.dashSize
    options,        \* this.options (the merged options the model reads)
    useTexture,     \* this.useTexture
    scale,          \* this.scale
    lineLength,     \* this.lineLength
    cursor,         \* this.cursor
    start,          \* this.start
    activeTexture,  \* this.activeTexture
    pen,            \* the surface's current point
    strokeStyle,    \* the surface's stroke style
    emitted,        \* the surface calls made by the last tracer call, in order
    cache,          \* DashLine.dashTextureCache: the keys it holds
    tasks,          \* the setStrokeStyle / getTexture invocations in flight
    writes,         \* history: the keys written to the cache, in order
    inked,          \* history: the travelled unit cells of the subpath drawn so far
    sawClosed,      \* history: a closing lineTo ran in this subpath
    segs,           \* history: lineTo calls since the last moveTo
    bends,          \* history: right-angle turns between consecutive lineTo calls of the subpath
    last,           \* history: the last tracer call
    seam,           \* history: the stroke transforms of the last two lineTo calls of the subpath
    shape,          \* history: the last shape composer call and the tracer calls it made
    flat            \* the curve flattening in progress: its position, pending pieces and points

tracerVars == <<phase, dash, dashSize, options, useTexture, scale, lineLength,
                cursor, start, activeTexture>>
surfaceVars == <<pen, strokeStyle, emitted>>
asyncVars == <<cache, tasks, writes>>
histVars == <<inked, sawClosed, segs, bends, last, seam, shape>>
vars == <<tracerVars, surfaceVars, asyncVars, histVars, flat>>

(***************************************************************************)
(* Bounds of the model.                                                    *)
(***************************************************************************)
MaxX == 4          \* vector world: x in 0..MaxX
MaxY == 1          \* vector world: y in 0..MaxY
MaxLen == 10       \* vector world: lineLength never exceeds this
MaxSegs == 4       \* vector world: lineTo calls of one subpath
MaxTX == 1         \* texture world: x in 0..MaxTX
MaxTY == 1         \* texture world: y in 0..MaxTY
MaxTSegs == 2      \* texture world: lineTo calls of one subpath
MaxLine == 34      \* line world: x in 0..MaxLine, y = 0
MaxLineSegs == 2   \* line world: lineTo calls of one subpath
MaxStrides == 12   \* strides of one lineTo after which the loop is taken not to end
MaxShape == 1      \* shapes world: coordinates in 0..MaxShape, sizes up to 2 * MaxShape
MaxCurve == 1      \* curve world: control points in (0..MaxCurve) x (0..MaxCurve)
MaxStack == 4      \* curve world: pending pieces the model follows
MaxCloseX == 4     \* closing world: points (0..MaxCloseX) x {0}
MaxCloseSegs == 2  \* closing world: lineTo calls of one subpath

None == "none"

Pt(x, y) == [x |-> x, y |-> y]

Abs(n) == IF n < 0 THEN -n ELSE n

Sgn(n) == IF n > 0 THEN 1 ELSE IF n < 0 THEN -1 ELSE 0

Min(a, b) == IF a < b THEN a ELSE b

RECURSIVE SumSeq(_)
SumSeq(s) == IF s = <<>> THEN 0 ELSE Head(s) + SumSeq(Tail(s))

(* Math.sqrt on a perfect square. *)
Sqrt(n) == CHOOSE r \in 0..n : r * r = n

(* DashLine.distance *)
Distance(x1, y1, x2, y2) ==
    LET dx == x2 - x1
        dy == y2 - y1
    IN  IF dy = 0 THEN Abs(dx)
        ELSE IF dx = 0 THEN Abs(dy)
        ELSE Sqrt(dx * dx + dy * dy)

(* cos and sin of Math.atan2(y - cursor.y, x - cursor.x) for an axis-aligned
   segment; atan2(0, 0) is 0. *)
Cos(cx, cy, x, y) == IF y = cy THEN (IF x < cx THEN -1 ELSE 1) ELSE 0

Sin(cx, cy, x, y) == IF y = cy THEN 0 ELSE Sgn(y - cy)

(* The % of the source on integers: the result takes the dividend's sign.
   b # 0. *)
JsRem(a, b) ==
    LET m == Abs(b)
    IN  IF a >= 0 THEN a % m ELSE -((-a) % m)

(* A surface call: op is "moveTo", "lineTo", "closePath" or "stroke".  For a
   stride of the vector emitter, [a, b] is the stretch of the segment it
   covers (distances from the segment's start) and idx its dash index. *)
Op(kind, x, y, a, b, idx) ==
    [op |-> kind, x |-> x, y |-> y, a |-> a, b |-> b, idx |-> idx]

PlainOp(kind, x, y) == Op(kind, x, y, 0, 0, -1)

(* A faulty place, which forgets the travelled length. *)
PlaceNoAccumulation(len, off, period) ==
    IF period = 0 THEN [nan |-> TRUE, v |-> 0]
    ELSE [nan |-> FALSE, v |-> JsRem(off, period)]

(* place: x % 0 is NaN, and every comparison with NaN is false. *)
Place(len, off, period) ==
    IF period = 0 THEN [nan |-> TRUE, v |-> 0]
    ELSE [nan |-> FALSE, v |-> JsRem(len + off, period)]

(* A faulty lookup, which forgets how far into the entry the place is. *)
RECURSIVE LocateForgetsResidual(_, _, _, _, _)
LocateForgetsResidual(d, sc, place, i, dashX) ==
    IF i >= Len(d) THEN [dashIndex |-> 0, dashStart |-> 0]
    ELSE LET size == d[i + 1] * sc
         IN  IF ~place.nan /\ place.v < dashX + size
             THEN [dashIndex |-> i, dashStart |-> 0]
             ELSE LocateForgetsResidual(d, sc, place, i + 1, dashX + size)

(* A faulty lookup, whose entries are closed at their end. *)
RECURSIVE LocateClosedAtEnd(_, _, _, _, _)
LocateClosedAtEnd(d, sc, place, i, dashX) ==
    IF i >= Len(d) THEN [dashIndex |-> 0, dashStart |-> 0]
    ELSE LET size == d[i + 1] * sc
         IN  IF ~place.nan /\ place.v <= dashX + size
             THEN [dashIndex |-> i, dashStart |-> place.v - dashX]
             ELSE LocateClosedAtEnd(d, sc, place, i + 1, dashX + size)

(* The phase lookup: the for loop over the pattern. *)
RECURSIVE Locate(_, _, _, _, _)
Locate(d, sc, place, i, dashX) ==
    IF i >= Len(d) THEN [dashIndex |-> 0, dashStart |-> 0]
    ELSE LET size == d[i + 1] * sc
         IN  IF ~place.nan /\ place.v < dashX + size
             THEN [dashIndex |-> i, dashStart |-> place.v - dashX]
             ELSE Locate(d, sc, place, i + 1, dashX + size)

(* The phase a vector lineTo starts from. *)
PhaseAt(d, period, sc, off, len) == Locate(d, sc, Place(len, off, period * sc), 0, 0)

(* A faulty stride length, which never truncates the last stride. *)
StrideDistNoTruncation(remaining, size) == size

(* dist: the length of one stride. *)
StrideDist(remaining, size) == IF remaining > size THEN size ELSE remaining

(* The while loop of the vector branch.  w holds the loop's locals
   (remaining, dashIndex, dashStart, x0, y0), the calls made so far and the
   strides left before the loop is taken not to end; c holds what the loop
   reads and does not change. *)
RECURSIVE Walk(_, _)
Walk(c, w) ==
    IF ~(w.remaining > 0) THEN [ops |-> w.ops, hung |-> FALSE]
    ELSE IF w.fuel = 0 THEN [ops |-> w.ops, hung |-> TRUE]
    ELSE
    LET size == c.dash[w.dashIndex + 1] * c.scale - w.dashStart
        dist == StrideDist(w.remaining, size)
        at == c.length - w.remaining
        x1 == w.x0 + c.cos * dist
        y1 == w.y0 + c.sin * dist
        next == IF w.dashIndex + 1 = Len(c.dash) THEN 0 ELSE w.dashIndex + 1
    IN  IF c.closed /\ Distance(x1, y1, c.start.x, c.start.y) <= dist
        THEN IF w.dashIndex % 2 = 0
             THEN LET lastDash == Distance(w.x0, w.y0, c.start.x, c.start.y)
                                      - c.dash[Len(c.dash)] * c.scale
                  IN  [ops |-> Append(w.ops,
                                  Op("lineTo", w.x0 + c.cos * lastDash,
                                     w.y0 + c.sin * lastDash,
                                     at, at + lastDash, w.dashIndex)),
                       hung |-> FALSE]
             ELSE [ops |-> w.ops, hung |-> FALSE]
        ELSE Walk(c, [remaining |-> w.remaining - dist,
                      dashIndex |-> next,
                      dashStart |-> 0,
                      x0 |-> x1,
                      y0 |-> y1,
                      ops |-> Append(w.ops,
                                 Op(IF w.dashIndex % 2 = 1 THEN "moveTo" ELSE "lineTo",
                                    x1, y1, at, at + dist, w.dashIndex)),
                      fuel |-> w.fuel - 1])

(* The vector branch of lineTo: the surface calls of a lineTo to (x, y) from
   cursor cur with lineLength len, and whether the loop ends. *)
LineToVector(d, period, sc, off, len, cur, st, x, y, closePath) ==
    LET ph == PhaseAt(d, period, sc, off, len)
    IN  Walk([dash |-> d, scale |-> sc, start |-> st,
              length |-> Distance(cur.x, cur.y, x, y),
              cos |-> Cos(cur.x, cur.y, x, y),
              sin |-> Sin(cur.x, cur.y, x, y),
              closed |-> closePath /\ x = st.x /\ y = st.y],
             [remaining |-> Distance(cur.x, cur.y, x, y),
              dashIndex |-> ph.dashIndex,
              dashStart |-> ph.dashStart,
              x0 |-> cur.x,
              y0 |-> cur.y,
              ops |-> <<>>,
              fuel |-> MaxStrides])

(* The surface's current point after the calls ops, from current point p0;
   closePath returns to the point of the last moveTo. *)
RECURSIVE PenAfter(_, _, _)
PenAfter(ops, p0, sub) ==
    IF ops = <<>> THEN p0
    ELSE LET o == Head(ops)
         IN  IF o.op = "moveTo" THEN PenAfter(Tail(ops), Pt(o.x, o.y), Pt(o.x, o.y))
             ELSE IF o.op = "lineTo" THEN PenAfter(Tail(ops), Pt(o.x, o.y), sub)
             ELSE IF o.op = "closePath" THEN PenAfter(Tail(ops), sub, sub)
             ELSE PenAfter(Tail(ops), p0, sub)

(* The travelled unit cells the line-draws of ops cover, for a segment that
   starts at travelled distance len. *)
InkOf(ops, len) ==
    UNION { IF ops[i].op # "lineTo" THEN {}
            ELSE IF ops[i].a <= ops[i].b THEN (len + ops[i].a)..(len + ops[i].b - 1)
            ELSE (len + ops[i].b)..(len + ops[i].a - 1) : i \in DOMAIN ops }

NoTexture == <<>>

Identity == [cos |-> 1, sin |-> 0, sc |-> 1, tx |-> 0, ty |-> 0]

DefaultStyle == [styled |-> FALSE, width |-> 1, texture |-> NoTexture, matrix |-> Identity]

(* The style setStrokeStyle hands to graphics.stroke in vector mode. *)
VectorStyle(opts) ==
    [styled |-> TRUE, width |-> opts.width * opts.scale, texture |-> NoTexture,
     matrix |-> Identity]

(* The style setStrokeStyle hands to graphics.stroke in texture mode. *)
TextureStyle(opts, texture) ==
    [styled |-> TRUE, width |-> opts.width * opts.scale, texture |-> texture,
     matrix |-> Identity]

(* The matrix adjustStrokeStyle builds for a segment of direction (cos, sin). *)
AdjustMatrix(cos, sin, sc, off, len, cur) ==
    LET textureStart == -(len + off)
    IN  [cos |-> cos, sin |-> sin, sc |-> sc,
         tx |-> cur.x + textureStart * cos,
         ty |-> cur.y + textureStart * sin]

(* A faulty texture branch, which pulls back by the whole last gap. *)
LineToTextureNoClamp(d, cur, st, x, y, closePath) ==
    LET length == Distance(cur.x, cur.y, x, y)
        cos == Cos(cur.x, cur.y, x, y)
        sin == Sin(cur.x, cur.y, x, y)
        closed == closePath /\ x = st.x /\ y = st.y
    IN  <<PlainOp("moveTo", cur.x, cur.y), PlainOp("stroke", 0, 0)>> \o
        (IF closed /\ Len(d) % 2 = 0
         THEN LET gap == d[Len(d)]
              IN  <<Op("lineTo", x - cos * gap, y - sin * gap, 0, length - gap, -1),
                    PlainOp("closePath", 0, 0)>>
         ELSE <<Op("lineTo", x, y, 0, length, -1)>>)

(* The texture branch of lineTo: its surface calls. *)
LineToTexture(d, cur, st, x, y, closePath) ==
    LET length == Distance(cur.x, cur.y, x, y)
        cos == Cos(cur.x, cur.y, x, y)
        sin == Sin(cur.x, cur.y, x, y)
        closed == closePath /\ x = st.x /\ y = st.y
    IN  <<PlainOp("moveTo", cur.x, cur.y), PlainOp("stroke", 0, 0)>> \o
        (IF closed /\ Len(d) % 2 = 0
         THEN LET gap == Min(d[Len(d)], length)
              IN  <<Op("lineTo", x - cos * gap, y - sin * gap, 0, length - gap, -1),
                    PlainOp("closePath", 0, 0)>>
         ELSE <<Op("lineTo", x, y, 0, length, -1)>>)

TaskIds == {"ctor", "call", "other"}

IdleTask == [st |-> "idle", res |-> None, key |-> NoTexture, outcome |-> None]

(* A request whose outcome the model does not follow further. *)
DoneTask == [st |-> "done", res |-> None, key |-> NoTexture, outcome |-> None]

(* getTexture up to its first await: a cache hit, no 2d context, or a load
   in flight. *)
GetTextureSync(key, ctxOk) ==
    IF key \in cache
    THEN [st |-> "resume", res |-> "texture", key |-> key, outcome |-> "pending"]
    ELSE IF ~ctxOk
    THEN [st |-> "resume", res |-> "undefined", key |-> key, outcome |-> "pending"]
    ELSE [st |-> "loading", res |-> None, key |-> key, outcome |-> "pending"]

(* The record of a tracer call that goes to (x, y): its name, the length and
   axis ("h", "v" or "none") of its segment, whether it was a closing lineTo,
   the texture that was active when it ran, the cursor it found and its
   target. *)
CallTo(name, length, axis, closed, x, y) ==
    [call |-> name, length |-> length, axis |-> axis, closed |-> closed,
     tex |-> activeTexture, from |-> cursor, to |-> Pt(x, y)]

(* The record of a call that goes nowhere. *)
Call(name, length, axis, closed) ==
    CallTo(name, length, axis, closed, cursor.x, cursor.y)

(* No lineTo has installed a stroke transform in this subpath. *)
NoSeam == [n |-> 0,
           prev |-> [m |-> Identity, tex |-> NoTexture],
           cur |-> [m |-> Identity, tex |-> NoTexture]]

Axis(cx, cy, x, y) == IF y # cy THEN "v" ELSE IF x # cx THEN "h" ELSE "none"

(* A matrix argument of a composer; has is FALSE when none was passed. *)
Matrix(a, b, c, d, tx, ty) ==
    [has |-> TRUE, a |-> a, b |-> b, c |-> c, d |-> d, tx |-> tx, ty |-> ty]

NoMatrix == [has |-> FALSE, a |-> 1, b |-> 0, c |-> 0, d |-> 1, tx |-> 0, ty |-> 0]

NoShape == [name |-> "none", x |-> 0, y |-> 0, w |-> 0, h |-> 0, r |-> 0, n |-> 0,
            pts |-> <<>>, T |-> NoMatrix, calls |-> <<>>]

(* No curve has been flattened. *)
NoCurve == [pc |-> "idle", name |-> "none", stack |-> <<>>, out |-> <<>>,
            tolerance |-> 0, capped |-> FALSE, endPoint |-> Pt(0, 0)]

Init ==
    /\ phase = "new"
    /\ dash = <<>>
    /\ dashSize = 0
    /\ options = [scale |-> 1, offset |-> 0, width |-> 1, useTexture |-> FALSE]
    /\ useTexture = FALSE
    /\ scale = 1
    /\ lineLength = 0
    /\ cursor = Pt(0, 0)
    /\ start = Pt(0, 0)
    /\ activeTexture = NoTexture
    /\ pen = Pt(0, 0)
    /\ strokeStyle = DefaultStyle
    /\ emitted = <<>>
    /\ cache = {}
    /\ tasks = [t \in TaskIds |-> IdleTask]
    /\ writes = <<>>
    /\ inked = {}
    /\ sawClosed = FALSE
    /\ segs = 0
    /\ bends = 0
    /\ last = [call |-> "none", length |-> 0, axis |-> "none", closed |-> FALSE,
               tex |-> NoTexture, from |-> Pt(0, 0), to |-> Pt(0, 0)]
    /\ seam = NoSeam
    /\ shape = NoShape
    /\ flat = NoCurve

(* new DashLine(graphics, options): the reduce over an empty pattern throws;
   otherwise the fields are set and setStrokeStyle runs up to its first
   await. *)
Construct(d, s, o, tex, ctxOk) ==
    /\ phase = "new"
    /\ IF d = <<>>
       THEN /\ phase' = "rejected"
            /\ UNCHANGED <<dash, dashSize, options, useTexture, scale, lineLength,
                           cursor, start, activeTexture, surfaceVars, asyncVars, histVars, flat>>
       ELSE /\ phase' = "ready"
            /\ dash' = d
            /\ dashSize' = SumSeq(d)
            /\ useTexture' = tex
            /\ options' = [scale |-> s, offset |-> o, width |-> 1, useTexture |-> tex]
            /\ last' = Call("construct", 0, "none", FALSE)
            /\ UNCHANGED <<lineLength, cursor, start, activeTexture, pen, cache, writes,
                           inked, sawClosed, segs, bends, seam, shape, flat>>
            /\ IF tex
               THEN /\ tasks' = [tasks EXCEPT !["ctor"] = GetTextureSync(d, ctxOk)]
                    /\ emitted' = <<>>
                    /\ UNCHANGED <<scale, strokeStyle>>
               ELSE /\ tasks' = [tasks EXCEPT !["ctor"] =
                            [st |-> "done", res |-> None, key |-> NoTexture,
                             outcome |-> "fulfilled"]]
                    /\ strokeStyle' = VectorStyle(options')
                    /\ emitted' = <<PlainOp("stroke", 0, 0)>>
                    /\ scale' = s

(* A faulty setStrokeStyle, which forgets the travelled length. *)
SetStrokeStyleResetsPath(ctxOk) ==
    /\ phase = "ready"
    /\ tasks["call"].st \in {"idle", "done"}
    /\ last' = Call("setStrokeStyle", 0, "none", FALSE)
    /\ lineLength' = 0
    /\ UNCHANGED <<phase, dash, dashSize, options, useTexture, cursor, start,
                   activeTexture, pen, cache, writes, inked, sawClosed, segs, bends, seam, shape, flat>>
    /\ IF useTexture
       THEN /\ tasks' = [tasks EXCEPT !["call"] = GetTextureSync(dash, ctxOk)]
            /\ emitted' = <<>>
            /\ UNCHANGED <<scale, strokeStyle>>
       ELSE /\ tasks' = [tasks EXCEPT !["call"] =
                    [st |-> "done", res |-> None, key |-> NoTexture,
                     outcome |-> "fulfilled"]]
            /\ strokeStyle' = VectorStyle(options)
            /\ emitted' = <<PlainOp("stroke", 0, 0)>>
            /\ scale' = options.scale

(* setStrokeStyle called by the caller.  The caller starts no second call
   while one of its own is pending. *)
SetStrokeStyle(ctxOk) ==
    /\ phase = "ready"
    /\ tasks["call"].st \in {"idle", "done"}
    /\ last' = Call("setStrokeStyle", 0, "none", FALSE)
    /\ UNCHANGED <<phase, dash, dashSize, options, useTexture, lineLength, cursor, start,
                   activeTexture, pen, cache, writes, inked, sawClosed, segs, bends, seam, shape, flat>>
    /\ IF useTexture
       THEN /\ tasks' = [tasks EXCEPT !["call"] = GetTextureSync(dash, ctxOk)]
            /\ emitted' = <<>>
            /\ UNCHANGED <<scale, strokeStyle>>
       ELSE /\ tasks' = [tasks EXCEPT !["call"] =
                    [st |-> "done", res |-> None, key |-> NoTexture,
                     outcome |-> "fulfilled"]]
            /\ strokeStyle' = VectorStyle(options)
            /\ emitted' = <<PlainOp("stroke", 0, 0)>>
            /\ scale' = options.scale

(* Assets.load resolves: getTexture writes the cache slot and returns the
   texture. *)
AssetsLoadResolve(t) ==
    /\ phase # "hung"
    /\ tasks[t].st = "loading"
    /\ cache' = cache \cup {tasks[t].key}
    /\ writes' = Append(writes, tasks[t].key)
    /\ tasks' = [tasks EXCEPT ![t] = IF t = "other" THEN DoneTask
                                     ELSE [@ EXCEPT !.st = "resume", !.res = "texture"]]
    /\ UNCHANGED <<tracerVars, surfaceVars, histVars, flat>>

(* Assets.load rejects: getTexture's promise rejects. *)
AssetsLoadReject(t) ==
    /\ phase # "hung"
    /\ tasks[t].st = "loading"
    /\ tasks' = [tasks EXCEPT ![t] = IF t = "other" THEN DoneTask
                                     ELSE [@ EXCEPT !.st = "resume", !.res = "error"]]
    /\ UNCHANGED <<tracerVars, surfaceVars, histVars, cache, writes, flat>>

(* setStrokeStyle after its await.  A rejection ends the call: the
   constructor's is caught and logged (console.error), the caller's own is
   the caller's to observe. *)
Resume(t) ==
    /\ phase = "ready"
    /\ t \in {"ctor", "call"}
    /\ tasks[t].st = "resume"
    /\ last' = Call("resume", 0, "none", FALSE)
    /\ UNCHANGED <<phase, dash, dashSize, options, useTexture, lineLength, cursor,
                   start, pen, cache, writes, inked, sawClosed, segs, bends, seam, shape, flat>>
    /\ IF tasks[t].res = "texture"
       THEN /\ strokeStyle' = TextureStyle(options, tasks[t].key)
            /\ activeTexture' = tasks[t].key
            /\ scale' = options.scale
            /\ emitted' = <<PlainOp("stroke", 0, 0)>>
            /\ tasks' = [tasks EXCEPT ![t].st = "done", ![t].outcome = "fulfilled"]
       ELSE IF tasks[t].res = "undefined"
       THEN /\ scale' = options.scale
            /\ emitted' = <<>>
            /\ tasks' = [tasks EXCEPT ![t].st = "done", ![t].outcome = "fulfilled"]
            /\ UNCHANGED <<strokeStyle, activeTexture>>
       ELSE /\ emitted' = <<>>
            /\ tasks' = [tasks EXCEPT ![t].st = "done",
                             ![t].outcome = IF t = "ctor" THEN "caught" ELSE "rejected"]
            /\ UNCHANGED <<strokeStyle, activeTexture, scale>>

(* Another tracer constructed in texture mode on a surface of its own: only
   its getTexture request touches what this tracer shares, the cache. *)
ConstructOther(d, ctxOk) ==
    /\ phase # "hung"
    /\ tasks["other"].st = "idle"
    /\ d # <<>>
    /\ LET r == GetTextureSync(d, ctxOk)
       IN  tasks' = [tasks EXCEPT !["other"] =
                        IF r.st = "resume" THEN DoneTask ELSE r]
    /\ UNCHANGED <<tracerVars, surfaceVars, histVars, cache, writes, flat>>

(* A faulty moveTo, which starts a subpath without resetting the travelled
   length. *)
moveToKeepsLength(x, y) ==
    /\ phase = "ready"
    /\ cursor' = Pt(x, y)
    /\ start' = Pt(x, y)
    /\ pen' = Pt(x, y)
    /\ emitted' = <<PlainOp("moveTo", x, y)>>
    /\ inked' = {}
    /\ sawClosed' = FALSE
    /\ segs' = 0
    /\ bends' = 0
    /\ last' = CallTo("moveTo", 0, "none", FALSE, x, y)
    /\ seam' = NoSeam
    /\ UNCHANGED <<phase, dash, dashSize, options, useTexture, scale, activeTexture,
                   strokeStyle, asyncVars, shape, flat, lineLength>>

moveTo(x, y) ==
    /\ phase = "ready"
    /\ lineLength' = 0
    /\ cursor' = Pt(x, y)
    /\ start' = Pt(x, y)
    /\ pen' = Pt(x, y)
    /\ emitted' = <<PlainOp("moveTo", x, y)>>
    /\ inked' = {}
    /\ sawClosed' = FALSE
    /\ segs' = 0
    /\ bends' = 0
    /\ last' = CallTo("moveTo", 0, "none", FALSE, x, y)
    /\ seam' = NoSeam
    /\ UNCHANGED <<phase, dash, dashSize, options, useTexture, scale, activeTexture,
                   strokeStyle, asyncVars, shape, flat>>

(* lineTo(x, y, closePath), called as name ("lineTo", or "closePath" for
   closePath()).  The world w caps the travelled length and the number of
   segments of a subpath. *)
lineToAs(name, x, y, closePath, w) ==
    LET length == Distance(cursor.x, cursor.y, x, y)
        closed == closePath /\ x = start.x /\ y = start.y
        axis == Axis(cursor.x, cursor.y, x, y)
    IN  /\ phase = "ready"
        /\ x = cursor.x \/ y = cursor.y
        /\ lineLength + length <= w.maxLen
        /\ segs < w.maxSegs
        /\ \E r \in {IF useTexture
                      THEN [ops |-> LineToTexture(dash, cursor, start, x, y, closePath),
                            hung |-> FALSE]
                      ELSE LineToVector(dash, dashSize, scale, options.offset, lineLength,
                                        cursor, start, x, y, closePath)} :
              IF r.hung
              THEN /\ phase' = "hung"
                   /\ UNCHANGED <<dash, dashSize, options, useTexture, scale, lineLength,
                                  cursor, start, activeTexture, surfaceVars, asyncVars,
                                  histVars, flat>>
              ELSE /\ lineLength' = lineLength + length
                   /\ cursor' = Pt(x, y)
                   /\ emitted' = r.ops
                   /\ pen' = PenAfter(r.ops, pen, pen)
                   /\ strokeStyle' =
                          IF useTexture
                          THEN [strokeStyle EXCEPT !.matrix =
                                   AdjustMatrix(Cos(cursor.x, cursor.y, x, y),
                                                Sin(cursor.x, cursor.y, x, y),
                                                scale, options.offset, lineLength, cursor)]
                          ELSE strokeStyle
                   /\ inked' = IF useTexture THEN inked
                               ELSE inked \cup InkOf(r.ops, lineLength)
                   /\ sawClosed' = (sawClosed \/ closed)
                   /\ segs' = segs + 1
                   /\ bends' = IF /\ last.call \in {"lineTo", "closePath"}
                                  /\ last.axis # "none"
                                  /\ axis # "none"
                                  /\ axis # last.axis
                               THEN bends + 1 ELSE bends
                   /\ last' = CallTo(name, length, axis, closed, x, y)
                   /\ seam' = IF useTexture
                              THEN [n |-> Min(seam.n + 1, 2),
                                    prev |-> seam.cur,
                                    cur |-> [m |-> strokeStyle'.matrix,
                                             tex |-> activeTexture]]
                              ELSE seam
                   /\ UNCHANGED <<phase, dash, dashSize, options, useTexture, scale, start,
                                  activeTexture, asyncVars, shape, flat>>

lineTo(x, y, closePath, w) == lineToAs("lineTo", x, y, closePath, w)

closePath(w) == lineToAs("closePath", start.x, start.y, TRUE, w)

(***************************************************************************)
(* The shape composers.  Each is modelled by the tracer calls it makes, in *)
(* order.  Math.cos and Math.sin are exact at the multiples of a quarter   *)
(* turn; a point at any other angle is kept as a term (sym).               *)
(***************************************************************************)

(* matrix.apply(p, p) *)
Apply(T, p) == Pt(T.a * p.x + T.c * p.y + T.tx, T.b * p.x + T.d * p.y + T.ty)

(* A point handed to the tracer: grid coordinates, or a term. *)
At(p) == [x |-> p.x, y |-> p.y, sym |-> <<>>]

(* The point at angle degrees on the circle of centre (cx, cy), as
   getPointOnArc leaves it: sent through T when a matrix was passed. *)
Term(cx, cy, radius, angle, T) ==
    [x |-> 0, y |-> 0,
     sym |-> <<cx, cy, radius, angle,
               IF T.has THEN <<T.a, T.b, T.c, T.d, T.tx, T.ty>> ELSE <<>> >>]

CosDeg(angle) == LET q == (angle \div 90) % 4
                 IN  IF q = 0 THEN 1 ELSE IF q = 2 THEN -1 ELSE 0

SinDeg(angle) == LET q == (angle \div 90) % 4
                 IN  IF q = 1 THEN 1 ELSE IF q = 3 THEN -1 ELSE 0

MoveCall(p) == [op |-> "moveTo", to |-> p, closePath |-> FALSE]

LineCall(p, cp) == [op |-> "lineTo", to |-> p, closePath |-> cp]

(* getPointOnArc *)
GetPointOnArc(cx, cy, radius, angle, T) ==
    IF radius = 0
    THEN At(IF T.has THEN Apply(T, Pt(cx, cy)) ELSE Pt(cx, cy))
    ELSE IF angle % 90 = 0
    THEN LET p == Pt(cx + CosDeg(angle) * radius, cy + SinDeg(angle) * radius)
         IN  At(IF T.has THEN Apply(T, p) ELSE p)
    ELSE Term(cx, cy, radius, angle, T)

(* circle: the first point goes through the matrix; the points of the loop
   are built without it, and the last one is the first. *)
CircleCalls(x, y, radius, points, T) ==
    LET interval == 360 \div points
        sample(i) == Pt(x + CosDeg(i * interval) * radius,
                        y + SinDeg(i * interval) * radius)
        first == IF T.has THEN Apply(T, sample(0)) ELSE sample(0)
    IN  <<MoveCall(At(first))>> \o
        [i \in 1..points |-> LineCall(At(IF i = points THEN first ELSE sample(i)), FALSE)]

(* ellipse: the loop runs once per point, from the top of the ellipse. *)
EllipseCalls(x, y, radiusX, radiusY, points, T) ==
    LET interval == 360 \div points
        sample(i) == LET p == Pt(x - radiusX * SinDeg(i * interval),
                                 y - radiusY * CosDeg(i * interval))
                     IN  IF T.has THEN Apply(T, p) ELSE p
    IN  [i \in 1..points |-> IF i = 1 THEN MoveCall(At(sample(0)))
                             ELSE LineCall(At(sample(i - 1)), FALSE)]
        \o <<LineCall(At(sample(0)), TRUE)>>

(* poly, on its points (flat coordinates and Point objects take branches
   that make the same calls). *)
PolyCalls(points, T) ==
    [i \in 1..Len(points) |->
        LET p == IF T.has THEN Apply(T, points[i]) ELSE points[i]
        IN  IF i = 1 THEN MoveCall(At(p)) ELSE LineCall(At(p), i = Len(points))]

RectCalls(x, y, width, height, T) ==
    LET tp(px, py) == At(IF T.has THEN Apply(T, Pt(px, py)) ELSE Pt(px, py))
    IN  <<MoveCall(tp(x, y)),
          LineCall(tp(x + width, y), FALSE),
          LineCall(tp(x + width, y + height), FALSE),
          LineCall(tp(x, y + height), FALSE),
          LineCall(tp(x, y), TRUE)>>

(* const segments = 10 *)
Segments == 10

(* drawDashedArc *)
DrawDashedArc(cx, cy, radius, startAngle, endAngle, T) ==
    LET angleStep == (endAngle - startAngle) \div Segments
    IN  [i \in 1..Segments |->
            LineCall(GetPointOnArc(cx, cy, radius, startAngle + i * angleStep, T), FALSE)]

(* A faulty corner radius, which is not clamped. *)
EffectiveRadiusUnclamped(cornerRadius, width, height) == cornerRadius

(* cornerRadius = Math.min(cornerRadius, minSize / 2); widths and heights
   are even here, so that the half is a grid length. *)
EffectiveRadius(cornerRadius, width, height) ==
    Min(cornerRadius, Min(width, height) \div 2)

RoundRectCalls(x, y, width, height, cornerRadius, T) ==
    LET r == EffectiveRadius(cornerRadius, width, height)
        transformPoint(px, py) == At(IF T.has THEN Apply(T, Pt(px, py)) ELSE Pt(px, py))
        st == transformPoint(x + r, y)
    IN  <<MoveCall(st), LineCall(transformPoint(x + width - r, y), FALSE)>>
        \o DrawDashedArc(x + width - r, y + r, r, -90, 0, T)
        \o <<LineCall(transformPoint(x + width, y + height - r), FALSE)>>
        \o DrawDashedArc(x + width - r, y + height - r, r, 0, 90, T)
        \o <<LineCall(transformPoint(x + r, y + height), FALSE)>>
        \o DrawDashedArc(x + r, y + height - r, r, 90, 180, T)
        \o <<LineCall(transformPoint(x, y + r), FALSE)>>
        \o DrawDashedArc(x + r, y + r, r, 180, 270, T)
        \o <<LineCall(st, TRUE)>>

(***************************************************************************)
(* The tracer as a composer drives it: moveTo and lineTo as functions of   *)
(* the tracer's state t, so that a composer's calls can be run in order.   *)
(***************************************************************************)
Tracer ==
    [phase |-> phase, lineLength |-> lineLength, cursor |-> cursor, start |-> start,
     pen |-> pen, strokeStyle |-> strokeStyle, emitted |-> <<>>, inked |-> inked,
     sawClosed |-> sawClosed, segs |-> segs, bends |-> bends, last |-> last,
     seam |-> seam]

(* moveTo *)
AfterMoveTo(t, x, y) ==
    IF t.phase # "ready" THEN t
    ELSE [t EXCEPT !.lineLength = 0,
                   !.cursor = Pt(x, y),
                   !.start = Pt(x, y),
                   !.pen = Pt(x, y),
                   !.emitted = Append(@, PlainOp("moveTo", x, y)),
                   !.inked = {},
                   !.sawClosed = FALSE,
                   !.segs = 0,
                   !.bends = 0,
                   !.last = [call |-> "moveTo", length |-> 0, axis |-> "none",
                             closed |-> FALSE, tex |-> activeTexture,
                             from |-> t.cursor, to |-> Pt(x, y)],
                   !.seam = NoSeam]

(* lineTo *)
AfterLineTo(t, x, y, cp) ==
    IF t.phase # "ready" THEN t
    ELSE
    LET length == Distance(t.cursor.x, t.cursor.y, x, y)
        closed == cp /\ x = t.start.x /\ y = t.start.y
        axis == Axis(t.cursor.x, t.cursor.y, x, y)
        r == IF useTexture
             THEN [ops |-> LineToTexture(dash, t.cursor, t.start, x, y, cp), hung |-> FALSE]
             ELSE LineToVector(dash, dashSize, scale, options.offset, t.lineLength,
                               t.cursor, t.start, x, y, cp)
        style == IF useTexture
                 THEN [t.strokeStyle EXCEPT !.matrix =
                          AdjustMatrix(Cos(t.cursor.x, t.cursor.y, x, y),
                                       Sin(t.cursor.x, t.cursor.y, x, y),
                                       scale, options.offset, t.lineLength, t.cursor)]
                 ELSE t.strokeStyle
    IN  IF r.hung THEN [t EXCEPT !.phase = "hung"]
        ELSE [t EXCEPT !.lineLength = @ + length,
                       !.cursor = Pt(x, y),
                       !.pen = PenAfter(r.ops, @, @),
                       !.strokeStyle = style,
                       !.emitted = @ \o r.ops,
                       !.inked = IF useTexture THEN @ ELSE @ \cup InkOf(r.ops, t.lineLength),
                       !.sawClosed = (@ \/ closed),
                       !.segs = @ + 1,
                       !.bends = IF /\ t.last.call \in {"lineTo", "closePath"}
                                    /\ t.last.axis # "none"
                                    /\ axis # "none"
                                    /\ axis # t.last.axis
                                 THEN @ + 1 ELSE @,
                       !.last = [call |-> "lineTo", length |-> length, axis |-> axis,
                                 closed |-> closed, tex |-> activeTexture,
                                 from |-> t.cursor, to |-> Pt(x, y)],
                       !.seam = IF useTexture
                                THEN [n |-> Min(@.n + 1, 2),
                                      prev |-> @.cur,
                                      cur |-> [m |-> style.matrix, tex |-> activeTexture]]
                                ELSE @]

(* The tracer after the calls of a composer, run in order. *)
RECURSIVE RunCalls(_, _)
RunCalls(t, calls) ==
    IF calls = <<>> THEN t
    ELSE LET c == Head(calls)
         IN  CHOOSE r \in { RunCalls(n, Tail(calls)) :
                               n \in {IF c.op = "moveTo" THEN AfterMoveTo(t, c.to.x, c.to.y)
                                      ELSE AfterLineTo(t, c.to.x, c.to.y, c.closePath)} } :
                        TRUE

(* The calls stay on the grid the model follows lengths on: every target is
   a grid point and every segment is axis-aligned. *)
OnGrid(from, calls) ==
    /\ \A i \in DOMAIN calls : calls[i].to.sym = <<>>
    /\ \A i \in DOMAIN calls :
          LET p == IF i = 1 THEN from ELSE calls[i - 1].to
          IN  calls[i].op = "moveTo" \/ calls[i].to.x = p.x \/ calls[i].to.y = p.y

(* A composer call that makes the tracer calls named in sh.  Off the grid
   the tracer is followed no further (phase "offgrid").  Every composer
   starts a subpath of its own with moveTo, so one composer call per tracer
   is followed. *)
Compose(sh) ==
    /\ phase = "ready"
    /\ shape = NoShape
    /\ shape' = sh
    /\ IF OnGrid(At(cursor), sh.calls)
       THEN \E t \in {RunCalls(Tracer, sh.calls)} :
               /\ phase' = t.phase
               /\ lineLength' = t.lineLength
               /\ cursor' = t.cursor
               /\ start' = t.start
               /\ pen' = t.pen
               /\ strokeStyle' = t.strokeStyle
               /\ emitted' = t.emitted
               /\ inked' = t.inked
               /\ sawClosed' = t.sawClosed
               /\ segs' = t.segs
               /\ bends' = t.bends
               /\ last' = [t.last EXCEPT !.call = sh.name]
               /\ seam' = t.seam
               /\ UNCHANGED <<dash, dashSize, options, useTexture, scale, activeTexture,
                              asyncVars>>
       ELSE /\ phase' = "offgrid"
            /\ UNCHANGED <<dash, dashSize, options, useTexture, scale, lineLength, cursor,
                           start, activeTexture, surfaceVars, asyncVars, inked, sawClosed,
                           segs, bends, last, seam>>

circle(x, y, radius, points, T) ==
    /\ Compose([NoShape EXCEPT !.name = "circle", !.x = x, !.y = y, !.r = radius,
                               !.n = points, !.T = T,
                               !.calls = CircleCalls(x, y, radius, points, T)])
    /\ UNCHANGED flat

ellipse(x, y, radiusX, radiusY, points, T) ==
    /\ Compose([NoShape EXCEPT !.name = "ellipse", !.x = x, !.y = y, !.w = radiusX,
                               !.h = radiusY, !.n = points, !.T = T,
                               !.calls = EllipseCalls(x, y, radiusX, radiusY, points, T)])
    /\ UNCHANGED flat

poly(points, T) ==
    /\ Compose([NoShape EXCEPT !.name = "poly", !.pts = points, !.T = T,
                               !.calls = PolyCalls(points, T)])
    /\ UNCHANGED flat

rect(x, y, width, height, T) ==
    /\ Compose([NoShape EXCEPT !.name = "rect", !.x = x, !.y = y, !.w = width,
                               !.h = height, !.T = T,
                               !.calls = RectCalls(x, y, width, height, T)])
    /\ UNCHANGED flat

roundRect(x, y, width, height, cornerRadius, T) ==
    /\ Compose([NoShape EXCEPT !.name = "roundRect", !.x = x, !.y = y, !.w = width,
                               !.h = height, !.r = cornerRadius, !.T = T,
                               !.calls = RoundRectCalls(x, y, width, height, cornerRadius, T)])
    /\ UNCHANGED flat

(***************************************************************************)
(* The curve flattener (bezierCurveTo, quadraticCurveTo and the recursive  *)
(* subdivision they declare).  Its code is not in the repository's source; *)
(* it is modelled from the specification's section 4.4: a flatness test    *)
(* against the tolerance, a split at the midpoint parameter (de Casteljau) *)
(* and a cap on the recursion depth.  The recursion is followed one piece  *)
(* at a time, its pending pieces on a stack.  A piece at depth k holds its *)
(* control points in units of 1 / 8^k, so that every midpoint is exact.    *)
(***************************************************************************)

(* The cap on the recursion depth. *)
DepthCap == 2

RECURSIVE Pow8(_)
Pow8(k) == IF k = 0 THEN 1 ELSE 8 * Pow8(k - 1)

Plus(p, q) == Pt(p.x + q.x, p.y + q.y)

Times(k, p) == Pt(k * p.x, k * p.y)

Cross(p, q) == p.x * q.y - p.y * q.x

(* The left and right halves of a piece of three (quadratic) or four (cubic)
   control points, in units an eighth of the piece's. *)
LeftHalf(c) ==
    IF Len(c) = 3
    THEN <<Times(8, c[1]), Times(4, Plus(c[1], c[2])),
           Times(2, Plus(Plus(c[1], Times(2, c[2])), c[3]))>>
    ELSE <<Times(8, c[1]), Times(4, Plus(c[1], c[2])),
           Times(2, Plus(Plus(c[1], Times(2, c[2])), c[3])),
           Plus(Plus(c[1], Times(3, c[2])), Plus(Times(3, c[3]), c[4]))>>

RightHalf(c) ==
    IF Len(c) = 3
    THEN <<Times(2, Plus(Plus(c[1], Times(2, c[2])), c[3])),
           Times(4, Plus(c[2], c[3])), Times(8, c[3])>>
    ELSE <<Plus(Plus(c[1], Times(3, c[2])), Plus(Times(3, c[3]), c[4])),
           Times(2, Plus(Plus(c[2], Times(2, c[3])), c[4])),
           Times(4, Plus(c[3], c[4])), Times(8, c[4])>>

(* The flatness test: the deviation of the inner control points from the
   chord (their cross products with it) is below the tolerance times the
   chord's length (its Manhattan length). *)
IsFlat(c, depth, tolerance) ==
    LET chord == Plus(c[Len(c)], Times(-1, c[1]))
        dev == SumSeq([i \in 1..(Len(c) - 2) |->
                          Abs(Cross(Plus(c[i + 1], Times(-1, c[1])), chord))])
    IN  dev < tolerance * Pow8(depth) * (Abs(chord.x) + Abs(chord.y))

(* A faulty cap, which never stops the recursion. *)
AtCapNever(depth) == FALSE

(* The recursion has reached the depth cap. *)
AtCap(depth) == depth >= DepthCap

(* A flattened point, in units of 1 / 8^DepthCap, as handed to lineTo: a
   grid point when it is one, a term otherwise. *)
FlatPoint(p) ==
    LET u == Pow8(DepthCap)
    IN  IF p.x % u = 0 /\ p.y % u = 0 THEN At(Pt(p.x \div u, p.y \div u))
        ELSE [x |-> 0, y |-> 0, sym |-> <<p.x, p.y, u>>]

(* bezierCurveTo / quadraticCurveTo up to the first subdivision: the curve
   from the cursor through the control points c.  One curve per tracer is
   followed. *)
CurveTo(name, c, tolerance) ==
    /\ phase = "ready"
    /\ shape = NoShape
    /\ flat.pc = "idle"
    /\ flat' = [pc |-> "run", name |-> name,
                stack |-> <<[c |-> <<cursor>> \o c, depth |-> 0]>>,
                out |-> <<>>, tolerance |-> tolerance, capped |-> FALSE,
                endPoint |-> c[Len(c)]]
    /\ UNCHANGED <<tracerVars, surfaceVars, asyncVars, histVars>>

bezierCurveTo(cp1, cp2, p, smoothness) ==
    CurveTo("bezierCurveTo", <<cp1, cp2, p>>, smoothness)

quadraticCurveTo(cp, p, smoothness) ==
    CurveTo("quadraticCurveTo", <<cp, p>>, smoothness)

(* One call of the recursive subdivision, on the piece on top of the stack:
   a flat piece, or one at the depth cap, emits its endpoint; any other is
   split, its left half to be taken first. *)
Subdivide ==
    /\ flat.pc = "run"
    /\ flat.stack # <<>>
    /\ LET piece == Head(flat.stack)
           rest == Tail(flat.stack)
           flatEnough == IsFlat(piece.c, piece.depth, flat.tolerance)
       IN  IF flatEnough \/ AtCap(piece.depth)
           THEN flat' = [flat EXCEPT
                            !.stack = rest,
                            !.out = Append(@, Times(Pow8(DepthCap - piece.depth),
                                                    piece.c[Len(piece.c)])),
                            !.capped = (@ \/ ~flatEnough)]
           ELSE /\ Len(flat.stack) < MaxStack
                /\ flat' = [flat EXCEPT
                               !.stack = <<[c |-> LeftHalf(piece.c),
                                            depth |-> piece.depth + 1],
                                           [c |-> RightHalf(piece.c),
                                            depth |-> piece.depth + 1]>> \o rest]
    /\ UNCHANGED <<tracerVars, surfaceVars, asyncVars, histVars>>

(* The subdivision has returned: every point is passed to lineTo. *)
FlattenDone ==
    /\ flat.pc = "run"
    /\ flat.stack = <<>>
    /\ flat' = [flat EXCEPT !.pc = "done"]
    /\ Compose([NoShape EXCEPT !.name = flat.name,
                               !.calls = [i \in DOMAIN flat.out |->
                                             LineCall(FlatPoint(flat.out[i]), FALSE)]])

(***************************************************************************)
(* The inputs of the worlds.                                         *)
(***************************************************************************)
VectorWorld == [mx |-> MaxX, my |-> MaxY, maxLen |-> MaxLen, maxSegs |-> MaxSegs]

TextureWorld ==
    [mx |-> MaxTX, my |-> MaxTY, maxLen |-> MaxTSegs * (MaxTX + MaxTY),
     maxSegs |-> MaxTSegs]

LineWorld == [mx |-> MaxLine, my |-> 0, maxLen |-> MaxLine, maxSegs |-> MaxLineSegs]

Points(w) == {Pt(x, y) : x \in 0..w.mx, y \in 0..w.my}

(* Subpaths start at a corner of the world. *)
Corners(w) == {Pt(0, 0), Pt(w.mx, w.my)}

Origin == {Pt(0, 0)}

Dashes == {<<2, 1>>, <<1, 2, 1>>, <<>>, <<0>>}

Scales == {1, 2}

Offsets == {-1, 0, 1}

TexDashes == {<<2, 1>>, <<1, 1, 1>>}

TexOffsets == {1}

(* Vector world: one tracer in vector mode on a MaxX by MaxY grid, its
   subpaths starting at the origin. *)
Next ==
    \/ \E d \in Dashes, s \in Scales, o \in Offsets : Construct(d, s, o, FALSE, TRUE)
    \/ \E p \in Origin : moveTo(p.x, p.y)
    \/ \E p \in Points(VectorWorld), cp \in BOOLEAN : lineTo(p.x, p.y, cp, VectorWorld)
    \/ closePath(VectorWorld)
    \/ SetStrokeStyle(TRUE)

Spec == Init /\ [][Next]_vars

(* Texture world: one tracer in either mode and its asynchronous setup. *)
NextTex ==
    \/ \E d \in TexDashes, s \in Scales, o \in TexOffsets, tex \in BOOLEAN, ok \in BOOLEAN :
          Construct(d, s, o, tex, ok)
    \/ \E p \in Corners(TextureWorld) : moveTo(p.x, p.y)
    \/ \E p \in Points(TextureWorld), cp \in BOOLEAN : lineTo(p.x, p.y, cp, TextureWorld)
    \/ closePath(TextureWorld)
    \/ \E ok \in BOOLEAN : SetStrokeStyle(ok)
    \/ \E t \in TaskIds : AssetsLoadResolve(t)
    \/ \E t \in TaskIds : AssetsLoadReject(t)
    \/ \E t \in TaskIds : Resume(t)

SpecTex == Init /\ [][NextTex]_vars

(* Cache world: two tracers in texture mode and their texture requests; no
   geometry. *)
NextCache ==
    \/ \E d \in TexDashes, s \in Scales, o \in TexOffsets, ok \in BOOLEAN :
          Construct(d, s, o, TRUE, ok)
    \/ \E d \in TexDashes, ok \in BOOLEAN : ConstructOther(d, ok)
    \/ \E ok \in BOOLEAN : SetStrokeStyle(ok)
    \/ \E t \in TaskIds : AssetsLoadResolve(t)
    \/ \E t \in TaskIds : AssetsLoadReject(t)
    \/ \E t \in TaskIds : Resume(t)

SpecCache == Init /\ [][NextCache]_vars

(* Line world: the default pattern [10, 5] on a long horizontal line. *)
NextLine ==
    \/ Construct(<<10, 5>>, 1, 0, FALSE, TRUE)
    \/ \E p \in Corners(LineWorld) : moveTo(p.x, p.y)
    \/ \E p \in Points(LineWorld), cp \in BOOLEAN : lineTo(p.x, p.y, cp, LineWorld)
    \/ closePath(LineWorld)
    \/ SetStrokeStyle(TRUE)

SpecLine == Init /\ [][NextLine]_vars

(* The inputs of the shapes world. *)
Matrices == {NoMatrix, Matrix(1, 0, 0, 1, 1, 0), Matrix(2, 0, 0, 2, 0, 0),
             Matrix(0, 1, -1, 0, 0, 0)}

Coords == 0..MaxShape

Sizes == {2 * k : k \in 0..MaxShape}

Radii == 0..(MaxShape + 1)

PointCounts == {1, 2, 4}

Polys == {<<Pt(0, 0)>>, <<Pt(0, 0), Pt(1, 0)>>, <<Pt(0, 0), Pt(2, 0), Pt(2, 1)>>,
          <<Pt(0, 0), Pt(2, 0), Pt(2, 1), Pt(0, 0)>>,
          <<Pt(1, 1), Pt(2, 1), Pt(2, 0), Pt(1, 0), Pt(1, 1)>>}

(* Shapes world: one tracer, in either mode, driven through the composers. *)
NextShapes ==
    \/ \E tex \in BOOLEAN : Construct(<<2, 1>>, 1, 0, tex, TRUE)
    \/ \E t \in TaskIds : AssetsLoadResolve(t)
    \/ \E t \in TaskIds : Resume(t)
    \/ \E x \in Coords, r \in Radii, n \in PointCounts, T \in Matrices :
          circle(x, 0, r, n, T)
    \/ \E x \in Coords, rx \in Radii, ry \in {0, 1}, n \in PointCounts, T \in Matrices :
          ellipse(x, 0, rx, ry, n, T)
    \/ \E pts \in Polys, T \in Matrices : poly(pts, T)
    \/ \E x \in Coords, w \in Sizes, h \in Sizes, T \in Matrices : rect(x, 0, w, h, T)
    \/ \E x \in Coords, w \in Sizes, h \in Sizes, r \in Radii, T \in Matrices :
          roundRect(x, 0, w, h, r, T)

SpecShapes == Init /\ [][NextShapes]_vars

(* The inputs of the curve world. *)
ControlPoints == {Pt(x, y) : x \in 0..MaxCurve, y \in 0..MaxCurve}

Tolerances == {0, 1}

(* Curve world: one tracer in vector mode flattens one curve. *)
NextCurve ==
    \/ Construct(<<2, 1>>, 1, 0, FALSE, TRUE)
    \/ \E cp1 \in ControlPoints, cp2 \in ControlPoints, p \in ControlPoints,
          tol \in Tolerances : bezierCurveTo(cp1, cp2, p, tol)
    \/ \E cp \in ControlPoints, p \in ControlPoints, tol \in Tolerances :
          quadraticCurveTo(cp, p, tol)
    \/ Subdivide
    \/ FlattenDone

(* A call that has started runs on: the subdivision is not suspended. *)
SpecCurve == Init /\ [][NextCurve]_vars /\ WF_vars(Subdivide) /\ WF_vars(FlattenDone)

(* Closing world: one tracer in either mode, pattern [2, 1] at scale 1 or 2,
   on a horizontal line long enough for a closing segment to hold the scaled
   final gap. *)
CloseWorld ==
    [mx |-> MaxCloseX, my |-> 0, maxLen |-> 2 * MaxCloseX, maxSegs |-> MaxCloseSegs]

NextClose ==
    \/ \E s \in Scales, tex \in BOOLEAN : Construct(<<2, 1>>, s, 0, tex, TRUE)
    \/ \E p \in Origin : moveTo(p.x, p.y)
    \/ \E p \in Points(CloseWorld), cp \in BOOLEAN : lineTo(p.x, p.y, cp, CloseWorld)
    \/ closePath(CloseWorld)
    \/ \E t \in TaskIds : AssetsLoadResolve(t)
    \/ \E t \in TaskIds : Resume(t)

SpecClose == Init /\ [][NextClose]_vars

(***************************************************************************)
(* Properties.                                                             *)
(***************************************************************************)
ValidDash(d) == d # <<>> /\ \A i \in DOMAIN d : d[i] > 0

IsLineTo == last.call \in {"lineTo", "closePath"}

Draws(ops) == SelectSeq(ops, LAMBDA o : o.op = "lineTo")

CeilDiv(a, b) == (a + b - 1) \div b

(* The cells one straight lineTo of length len inks on a fresh subpath. *)
StraightInk(len) ==
    InkOf(LineToVector(dash, dashSize, scale, options.offset, 0, Pt(0, 0), Pt(0, 0),
                       len, 0, FALSE).ops, 0)

(* C1: phase continuity in vector mode.  Whatever chain of non-closing
   lineTo calls a subpath is drawn with, the travelled distances it has
   inked are those one straight lineTo of the same total length inks on a
   fresh subpath. *)
C1_PhaseContinuity ==
    (phase = "ready" /\ ~useTexture /\ ValidDash(dash) /\ ~sawClosed)
        => inked = StraightInk(lineLength)

(* A rectangle of the largest perimeter drawn as four chained non-closing
   lineTo calls, with more than one dash on it. *)
C1_Witness ==
    /\ phase = "ready" /\ ~useTexture /\ ValidDash(dash) /\ ~sawClosed
    /\ segs = 4 /\ bends = 3 /\ cursor = start
    /\ lineLength = 2 * (MaxX + MaxY)
    /\ options.offset # 0 /\ scale = 2
    /\ inked # {} /\ inked # 0..(lineLength - 1)

(* C2: the phase lookup a vector lineTo would start from returns an index
   inside the pattern and a residual inside that entry, for every pattern
   with positive entries, scale > 0, travelled length >= 0 and offset. *)
C2_PhaseLookupInRange ==
    (phase = "ready" /\ ValidDash(dash) /\ scale > 0 /\ lineLength >= 0)
        => LET r == PhaseAt(dash, dashSize, scale, options.offset, lineLength)
           IN  /\ r.dashIndex \in 0..(Len(dash) - 1)
               /\ 0 <= r.dashStart
               /\ r.dashStart < dash[r.dashIndex + 1] * scale

(* C3: one non-closing lineTo of length L > 0 on a fresh subpath, pattern
   [10, 5], scale 1, offset 0, vector mode, makes exactly ceil(L / 15)
   line-draws, the k-th (from 0) covering [15k, min(15k + 10, L)]. *)
C3_DefaultPatternStrides ==
    (/\ phase = "ready" /\ ~useTexture
     /\ dash = <<10, 5>> /\ scale = 1 /\ options.offset = 0
     /\ last.call = "lineTo" /\ ~last.closed /\ segs = 1 /\ last.length > 0)
        => LET dr == Draws(emitted)
               L == last.length
           IN  /\ Len(dr) = CeilDiv(L, 15)
               /\ \A k \in 1..Len(dr) :
                     /\ dr[k].a = 15 * (k - 1)
                     /\ dr[k].b = Min(15 * (k - 1) + 10, L)

(* The spec's example: L = 32 draws [0, 10], [15, 25] and [30, 32]. *)
C3_Witness ==
    /\ phase = "ready" /\ ~useTexture /\ dash = <<10, 5>>
    /\ last.call = "lineTo" /\ ~last.closed /\ segs = 1 /\ last.length = 32
    /\ LET dr == Draws(emitted)
       IN  /\ Len(dr) = 3
           /\ <<dr[1].a, dr[1].b>> = <<0, 10>>
           /\ <<dr[2].a, dr[2].b>> = <<15, 25>>
           /\ <<dr[3].a, dr[3].b>> = <<30, 32>>

(* C4: the closing-loop seam rule.  With a pattern of even length, a closing
   lineTo in vector mode emits no line-draw longer than the scaled pattern
   entry it belongs to, and none that runs backwards over the path.  Stated
   for offsets >= 0, where the phase lookup is in range (see C2). *)
C4_ClosingSeamRule ==
    (/\ phase = "ready" /\ ~useTexture /\ ValidDash(dash) /\ Len(dash) % 2 = 0
     /\ options.offset >= 0
     /\ IsLineTo /\ last.closed)
        => \A i \in DOMAIN emitted :
              emitted[i].op = "lineTo" =>
                 /\ emitted[i].a <= emitted[i].b
                 /\ emitted[i].b - emitted[i].a <= dash[emitted[i].idx + 1] * scale

(* C5: a zero-length lineTo (closePath() right after moveTo included) makes
   no surface lineTo and no surface closePath, in either mode. *)
C5_ZeroLengthEmitsNothing ==
    (phase = "ready" /\ IsLineTo /\ last.length = 0)
        => \A i \in DOMAIN emitted : emitted[i].op \notin {"lineTo", "closePath"}

(* C6: no tracer exists whose pattern is empty or has an entry <= 0: the
   constructor rejects such a pattern. *)
C6_BadPatternRejected ==
    phase \in {"ready", "hung"} => ValidDash(dash)

(* C7: in texture mode a lineTo issued while no texture has been applied to
   the stroke style makes no surface call. *)
C7_NoSurfaceCallsBeforeTexture ==
    (useTexture /\ IsLineTo /\ last.tex = NoTexture) => emitted = <<>>

(* C8: for every cache key at most one build is in flight, and the key's
   cache slot is written at most once. *)
C8_OneBuildPerKey ==
    \A k \in TexDashes :
        /\ Cardinality({t \in TaskIds : tasks[t].st = "loading" /\ tasks[t].key = k}) <= 1
        /\ Cardinality({i \in DOMAIN writes : writes[i] = k}) <= 1

(* C9: a texture setup that failed (no 2d context, or the load rejected) ends
   with a rejection the caller observes, for the constructor's setup and for
   the caller's own setStrokeStyle. *)
C9_FailureReported ==
    \A t \in {"ctor", "call"} :
        (tasks[t].st = "done" /\ tasks[t].res \in {"undefined", "error"})
            => tasks[t].outcome = "rejected"

(* C10: every step of setStrokeStyle, the synchronous part and the part after
   its await, whether the texture is applied, absent or failed, leaves
   cursor, start, lineLength, dash, dashSize and options as they were and
   the tracer ready for moveTo and lineTo. *)
C10_StrokeStyleFrame ==
    [][((\E ok \in BOOLEAN : SetStrokeStyle(ok)) \/ (\E t \in TaskIds : Resume(t)))
          => (/\ UNCHANGED <<cursor, start, lineLength, dash, dashSize, options>>
              /\ phase' = "ready")]_vars

(* The caller's setStrokeStyle has failed in the middle of a subpath. *)
C10_Witness ==
    /\ phase = "ready" /\ useTexture
    /\ last.call = "resume"
    /\ tasks["call"].st = "done" /\ tasks["call"].outcome = "rejected"
    /\ lineLength > 0 /\ cursor # start

(* The distance along the pattern, in surface units, at which the stroke
   transform m samples the surface point p: the x coordinate of p pulled
   back through the translation and the rotation of m. *)
Along(m, p) == (p.x - m.tx) * m.cos + (p.y - m.ty) * m.sin

(* The phase at which m samples p, in surface units of its own scale. *)
PatternPhase(m, p) == Along(m, p) % (dashSize * m.sc)

(* C11: texture-mode transform alignment.  After two consecutive lineTo
   calls of one subpath, the point they share is sampled at the same phase
   of the pattern under the stroke transform of the first and of the second
   (phases compared in pattern units, phase / scale), and under each it is
   (lineLength at that point + offset) modulo the scaled period. *)
C11_TransformAlignment ==
    (phase = "ready" /\ useTexture /\ IsLineTo /\ seam.n = 2)
        => LET b == last.from
               atB == lineLength - last.length
           IN  /\ PatternPhase(seam.prev.m, b) * seam.cur.m.sc
                    = PatternPhase(seam.cur.m, b) * seam.prev.m.sc
               /\ PatternPhase(seam.prev.m, b)
                    = (atB + options.offset) % (dashSize * seam.prev.m.sc)
               /\ PatternPhase(seam.cur.m, b)
                    = (atB + options.offset) % (dashSize * seam.cur.m.sc)

(* The tracer calls the composer call sh makes when no matrix is passed. *)
PlainCalls(sh) ==
    CASE sh.name = "circle" -> CircleCalls(sh.x, sh.y, sh.r, sh.n, NoMatrix)
      [] sh.name = "ellipse" -> EllipseCalls(sh.x, sh.y, sh.w, sh.h, sh.n, NoMatrix)
      [] sh.name = "poly" -> PolyCalls(sh.pts, NoMatrix)
      [] sh.name = "rect" -> RectCalls(sh.x, sh.y, sh.w, sh.h, NoMatrix)
      [] sh.name = "roundRect" -> RoundRectCalls(sh.x, sh.y, sh.w, sh.h, sh.r, NoMatrix)
      [] OTHER -> <<>>

(* T applied to a point handed to the tracer. *)
Through(T, p) ==
    IF ~T.has THEN p
    ELSE IF p.sym = <<>> THEN At(Apply(T, Pt(p.x, p.y)))
    ELSE [p EXCEPT !.sym[5] = <<T.a, T.b, T.c, T.d, T.tx, T.ty>>]

(* C12: a composer called with a transform T hands the tracer, call by
   call, T of the point it hands it when called without a transform; and
   circle makes one moveTo and then n lineTo calls, the last to the target
   of the moveTo. *)
C12_ComposersTransformPoints ==
    shape.name # "none"
        => LET plain == PlainCalls(shape)
           IN  /\ Len(shape.calls) = Len(plain)
               /\ \A i \in DOMAIN plain :
                     /\ shape.calls[i].op = plain[i].op
                     /\ shape.calls[i].closePath = plain[i].closePath
                     /\ shape.calls[i].to = Through(shape.T, plain[i].to)
               /\ shape.name = "circle"
                     => /\ Len(shape.calls) = shape.n + 1
                        /\ shape.calls[1].op = "moveTo"
                        /\ \A i \in 2..(shape.n + 1) : shape.calls[i].op = "lineTo"
                        /\ shape.calls[shape.n + 1].to = shape.calls[1].to

(* C13: curve flattening terminates.  Every bezierCurveTo and
   quadraticCurveTo that has started returns, whatever the control points
   and the tolerance; a piece stopped by the depth cap emits its endpoint
   like a flat one, so the call ends with the curve's endpoint as its last
   point and with the tracer in no failed state. *)
C13_FlatteningTerminates ==
    /\ (flat.pc = "run") ~> (flat.pc = "done")
    /\ [](flat.pc = "done"
            => /\ flat.out # <<>>
               /\ flat.out[Len(flat.out)] = Times(Pow8(DepthCap), flat.endPoint)
               /\ phase \in {"ready", "offgrid"})

(* A closed cubic (its endpoint is its start point) flattened with
   tolerance 0: no piece is ever flat, every branch of the recursion is
   stopped by the cap. *)
C13_Witness ==
    /\ flat.pc = "done" /\ flat.name = "bezierCurveTo"
    /\ flat.tolerance = 0 /\ flat.capped
    /\ flat.endPoint = Pt(0, 0)
    /\ Len(flat.out) = 4

(* C14: the tracer's state follows its calls, in either mode.  Every
   lineTo or closePath that returns (a closing one that stops early and a
   zero-length one included) adds the Euclidean length of its segment to
   lineLength, moves cursor to its target and leaves start alone; every
   moveTo sets lineLength to 0 and cursor and start to its target.  So
   lineLength is the sum of the lengths of the lineTo segments since the
   last moveTo. *)
C14_TracerStateFollowsCalls ==
    [][/\ (/\ \/ \E p \in Points(TextureWorld), cp \in BOOLEAN :
                    lineTo(p.x, p.y, cp, TextureWorld)
              \/ closePath(TextureWorld)
           /\ phase' = "ready")
          => /\ lineLength' = lineLength
                   + Distance(cursor.x, cursor.y, last'.to.x, last'.to.y)
             /\ cursor' = last'.to
             /\ start' = start
       /\ (\E p \in Corners(TextureWorld) : moveTo(p.x, p.y))
          => /\ lineLength' = 0
             /\ cursor' = last'.to
             /\ start' = last'.to]_vars

(* A vector-mode closing lineTo has stopped short of its target, after a
   first segment: the pen is not where the cursor is. *)
C14_Witness ==
    /\ phase = "ready" /\ ~useTexture /\ IsLineTo /\ last.closed /\ last.length > 0
    /\ segs = 2 /\ lineLength = 2 /\ cursor = start /\ cursor = last.to
    /\ pen # cursor

(* The sum of the first k entries of the pattern d. *)
PartialSum(d, k) == SumSeq(SubSeq(d, 1, k))

(* place, for a lineTo that starts at travelled length len. *)
PlaceOf(len) == Place(len, options.offset, dashSize * scale).v

(* C15 as claimed: when place falls on the boundary between the pattern
   entries i and i + 1, the phase lookup returns the earlier one, i. *)
C15_BoundaryEarlierSegment ==
    (phase = "ready" /\ ValidDash(dash) /\ scale > 0)
        => \A i \in 0..(Len(dash) - 2) :
              PlaceOf(lineLength) = PartialSum(dash, i + 1) * scale
                 => PhaseAt(dash, dashSize, scale, options.offset, lineLength).dashIndex = i

(* C15 as amended: when place falls on the boundary between the pattern
   entries i and i + 1, the phase lookup returns the later one, i + 1, with
   residual 0 (the entries are half-open, [start, start + length)); at
   place 0, where the pattern wraps, it returns entry 0 with residual 0. *)
C15_BoundaryLaterSegment ==
    (phase = "ready" /\ ValidDash(dash) /\ scale > 0)
        => /\ \A i \in 0..(Len(dash) - 2) :
                 PlaceOf(lineLength) = PartialSum(dash, i + 1) * scale
                    => PhaseAt(dash, dashSize, scale, options.offset, lineLength)
                          = [dashIndex |-> i + 1, dashStart |-> 0]
           /\ PlaceOf(lineLength) = 0
                 => PhaseAt(dash, dashSize, scale, options.offset, lineLength)
                       = [dashIndex |-> 0, dashStart |-> 0]

(* A lineTo in the middle of a subpath has started exactly where the first
   dash of the pattern ends, and its first stride is the whole gap. *)
C15_Witness ==
    /\ phase = "ready" /\ ~useTexture /\ ValidDash(dash)
    /\ IsLineTo /\ ~last.closed /\ segs >= 2
    /\ PlaceOf(lineLength - last.length) = dash[1] * scale
    /\ emitted # <<>>
    /\ emitted[1].op = "moveTo" /\ emitted[1].idx = 1
    /\ emitted[1].a = 0 /\ emitted[1].b = dash[2] * scale

(* The pattern entry that holds the phase u, 0 <= u < dashSize * scale, and
   how far into the entry u is. *)
EntryOf(u) ==
    CHOOSE i \in 0..(Len(dash) - 1) :
        PartialSum(dash, i) * scale <= u /\ u < PartialSum(dash, i + 1) * scale

ResidualOf(u) == u - PartialSum(dash, EntryOf(u)) * scale

(* C16: the strides of a non-closing vector-mode lineTo, for offsets >= 0.
   They cover the segment end to end; the first is in the entry that holds
   place and the index advances cyclically; each is min(remaining,
   P[index] * scale - dashStart) long, dashStart being the residual of
   place for the first stride and 0 after it; a stride is a surface lineTo
   to its end when its index is even and a surface moveTo otherwise; so the
   travelled distances the call draws are those whose phase lies in an
   even-indexed entry. *)
C16_StrideStructure ==
    (/\ phase = "ready" /\ ~useTexture /\ ValidDash(dash) /\ options.offset >= 0
     /\ IsLineTo /\ ~last.closed)
        => LET L == last.length
               len0 == lineLength - L
               period == dashSize * scale
               place == (len0 + options.offset) % period
               ops == emitted
               n == Len(ops)
               cos == Cos(last.from.x, last.from.y, last.to.x, last.to.y)
               sin == Sin(last.from.x, last.from.y, last.to.x, last.to.y)
           IN  /\ (L = 0) = (n = 0)
               /\ n > 0 => /\ ops[1].a = 0
                           /\ ops[n].b = L
                           /\ ops[1].idx = EntryOf(place)
               /\ \A k \in 1..n :
                     /\ k < n => /\ ops[k + 1].a = ops[k].b
                                 /\ ops[k + 1].idx = (ops[k].idx + 1) % Len(dash)
                     /\ ops[k].b - ops[k].a
                           = Min(L - ops[k].a,
                                 dash[ops[k].idx + 1] * scale
                                    - (IF k = 1 THEN ResidualOf(place) ELSE 0))
                     /\ ops[k].op = IF ops[k].idx % 2 = 0 THEN "lineTo" ELSE "moveTo"
                     /\ ops[k].x = last.from.x + cos * ops[k].b
                     /\ ops[k].y = last.from.y + sin * ops[k].b
               /\ InkOf(ops, len0)
                     = {c \in len0..(lineLength - 1) :
                           EntryOf((c + options.offset) % period) % 2 = 0}

(* A lineTo in the middle of a subpath, with a pattern of three entries
   scaled by 2, resumes inside an entry and walks over the wrap of the
   pattern, where two draw strides follow each other. *)
C16_Witness ==
    /\ phase = "ready" /\ ~useTexture /\ dash = <<1, 2, 1>> /\ scale = 2
    /\ options.offset = 1 /\ IsLineTo /\ ~last.closed /\ segs >= 2
    /\ ResidualOf((lineLength - last.length + options.offset) % (dashSize * scale)) > 0
    /\ \E k \in 1..(Len(emitted) - 1) :
          /\ emitted[k].idx = 2 /\ emitted[k + 1].idx = 0
          /\ emitted[k].op = "lineTo" /\ emitted[k + 1].op = "lineTo"

(* The kinds of the surface calls ops, in order. *)
Kinds(ops) == [i \in DOMAIN ops |-> ops[i].op]

(* C17: in texture mode every lineTo makes, in this order, a surface moveTo
   to the cursor it found, a stroke-style update whose transform is the one
   recomputed for the segment, and a surface lineTo.  When the call is
   closing and the pattern has an even number of entries, the lineTo goes
   to the target pulled back by min(last pattern entry, segment length)
   and a surface closePath follows; otherwise it goes to the target and no
   closePath follows. *)
C17_TextureCallOrder ==
    (phase = "ready" /\ useTexture /\ IsLineTo)
        => LET from == last.from
               to == last.to
               cos == IF to.y = from.y THEN (IF to.x < from.x THEN -1 ELSE 1) ELSE 0
               sin == IF to.y > from.y THEN 1 ELSE IF to.y < from.y THEN -1 ELSE 0
               textureStart == -((lineLength - last.length) + options.offset)
               pulled == last.closed /\ Len(dash) % 2 = 0
               gap == Min(dash[Len(dash)], last.length)
           IN  /\ Kinds(emitted) = IF pulled
                                   THEN <<"moveTo", "stroke", "lineTo", "closePath">>
                                   ELSE <<"moveTo", "stroke", "lineTo">>
               /\ emitted[1].x = from.x /\ emitted[1].y = from.y
               /\ strokeStyle.matrix = [cos |-> cos, sin |-> sin, sc |-> scale,
                                        tx |-> from.x + textureStart * cos,
                                        ty |-> from.y + textureStart * sin]
               /\ emitted[3].x = IF pulled THEN to.x - cos * gap ELSE to.x
               /\ emitted[3].y = IF pulled THEN to.y - sin * gap ELSE to.y

(* A closing lineTo of positive length in texture mode with a pattern of
   two entries: the surface lineTo stops short of the target and a surface
   closePath follows. *)
C17_Witness ==
    /\ phase = "ready" /\ useTexture /\ IsLineTo /\ last.closed
    /\ Len(dash) = 2 /\ last.length > 0 /\ segs = 2
    /\ Len(emitted) = 4 /\ emitted[4].op = "closePath"
    /\ Pt(emitted[3].x, emitted[3].y) # last.to

(* C18: roundRect(x, y, w, h, r) with the corner radius R = min(r,
   min(w, h) / 2) makes 46 tracer calls: a moveTo to (x + R, y); then four
   times an edge lineTo followed by the ten lineTo calls of a corner arc
   (the k-th at k * 9 degrees from the arc's start angle, on the circle of
   radius R round the corner's centre); then a lineTo to the target of the
   moveTo, the only call that carries the closing flag.  Every point is
   sent through the transform. *)
C18_RoundRectCalls ==
    shape.name = "roundRect"
        => LET x == shape.x
               y == shape.y
               w == shape.w
               h == shape.h
               R == Min(shape.r, Min(w, h) \div 2)
               c == shape.calls
               P(px, py) == Through(shape.T, At(Pt(px, py)))
               arc(cx, cy, a0, k) ==
                   Through(shape.T, GetPointOnArc(cx, cy, R, a0 + 9 * k, NoMatrix))
           IN  /\ Len(c) = 46
               /\ c[1] = MoveCall(P(x + R, y))
               /\ c[2] = LineCall(P(x + w - R, y), FALSE)
               /\ c[13] = LineCall(P(x + w, y + h - R), FALSE)
               /\ c[24] = LineCall(P(x + R, y + h), FALSE)
               /\ c[35] = LineCall(P(x, y + R), FALSE)
               /\ \A k \in 1..10 :
                     /\ c[2 + k] = LineCall(arc(x + w - R, y + R, -90, k), FALSE)
                     /\ c[13 + k] = LineCall(arc(x + w - R, y + h - R, 0, k), FALSE)
                     /\ c[24 + k] = LineCall(arc(x + R, y + h - R, 90, k), FALSE)
                     /\ c[35 + k] = LineCall(arc(x + R, y + R, 180, k), FALSE)
               /\ c[46] = LineCall(c[1].to, TRUE)

(* A rounded rectangle whose radius is clamped to half its side, drawn
   through a matrix: its arcs are real arcs. *)
C18_Witness ==
    /\ shape.name = "roundRect" /\ shape.T.has
    /\ shape.w = 2 /\ shape.h = 2 /\ shape.r = 2
    /\ Len(shape.calls) = 46
    /\ shape.calls[3].to.sym # <<>>
    /\ phase = "offgrid"

(* The cells one straight lineTo of length len inks on a fresh subpath when
   the scale is 1, with the tracer's pattern and offset. *)
UnitInk(len) ==
    InkOf(LineToVector(dash, dashSize, 1, options.offset, 0, Pt(0, 0), Pt(0, 0),
                       len, 0, FALSE).ops, 0)

(* C19: zoom invariance, for offsets >= 0.  A straight non-closing lineTo of
   length s * L drawn with scale s on a fresh subpath inks the travelled
   distances that are s times those a lineTo of length L inks with scale 1
   and the same pattern and offset: cell c is inked exactly when cell
   c / s of the unscaled line is. *)
C19_ZoomInvariance ==
    (/\ phase = "ready" /\ ~useTexture /\ ValidDash(dash) /\ options.offset >= 0
     /\ IsLineTo /\ ~last.closed /\ segs = 1 /\ scale > 0
     /\ last.length % scale = 0)
        => inked = {c \in 0..(lineLength - 1) :
                       (c \div scale) \in UnitInk(lineLength \div scale)}

(* C20: in vector mode, after every moveTo and every lineTo that returns
   (closePath and a closing lineTo that stops early included), the
   surface's current point is the tracer's cursor.  Stated for patterns
   with positive entries and offsets >= 0. *)
C20_PenAtCursor ==
    (/\ phase = "ready" /\ ~useTexture /\ ValidDash(dash) /\ options.offset >= 0
     /\ last.call \in {"moveTo", "lineTo", "closePath"})
        => pen = cursor

(* The last surface call of a vector lineTo belongs to the stride at which a
   closing lineTo stops: from that stride's start, one stride further is
   within one stride of the subpath's start. *)
StopsInLastStride ==
    LET n == Len(emitted)
        o == emitted[n]
        ph == PhaseAt(dash, dashSize, scale, options.offset, lineLength - last.length)
        size == dash[o.idx + 1] * scale - (IF n = 1 THEN ph.dashStart ELSE 0)
        dist == StrideDist(last.length - o.a, size)
    IN  last.length - (o.a + dist) <= dist

(* A closing vector lineTo has stopped early inside a draw stride. *)
StoppedInDraw ==
    /\ phase = "ready" /\ ~useTexture /\ ValidDash(dash) /\ options.offset >= 0
    /\ IsLineTo /\ last.closed /\ emitted # <<>>
    /\ emitted[Len(emitted)].op = "lineTo"
    /\ StopsInLastStride

(* The point one scaled final-gap length before the subpath's start along
   the closing segment. *)
PullBackPoint ==
    LET g == dash[Len(dash)] * scale
    IN  Pt(start.x - Cos(last.from.x, last.from.y, start.x, start.y) * g,
           start.y - Sin(last.from.x, last.from.y, start.x, start.y) * g)

(* C21: when a closing vector lineTo stops early inside a draw stride, the
   line-draw it emits ends one scaled final-gap length before the subpath's
   start along the segment, and that point is not behind the stride's start:
   the draw has non-negative length. *)
C21_ClosingDrawForward ==
    StoppedInDraw
        => LET o == emitted[Len(emitted)]
           IN  /\ Pt(o.x, o.y) = PullBackPoint
               /\ o.a <= o.b

(* C22: for a closing segment with a pattern of even length, texture mode
   pulls the final stroke back from the subpath's start by the distance the
   vector-mode closing rule does (C21: one final gap times the scale), for
   every scale.  Stated for a texture that has been applied, with the active
   scale the configured one, and for a closing segment at least as long as
   the scaled final gap. *)
C22_SamePullBack ==
    (/\ phase = "ready" /\ useTexture /\ ValidDash(dash) /\ Len(dash) % 2 = 0
     /\ IsLineTo /\ last.closed
     /\ last.tex # NoTexture /\ scale = options.scale
     /\ last.length >= dash[Len(dash)] * scale)
        => \E i \in DOMAIN emitted :
              /\ emitted[i].op = "lineTo"
              /\ Pt(emitted[i].x, emitted[i].y) = PullBackPoint
              /\ last.length - emitted[i].b = dash[Len(dash)] * scale

(* C23: in every state in which a lineTo can run once the constructor has
   returned, in both modes and whether the texture is pending, applied or
   failed, the tracer's active scale is the configured options.scale. *)
C23_ActiveScaleIsConfigured ==
    phase = "ready" => scale = options.scale

====
